---- MODULE Spec2Model ----
(***************************************************************************)
(* Model of the data-preparation pipeline of the credit-risk feature store *)
(* tutorial: src/data/kaggle_fetch.py (archive expansion, tabular file     *)
(* selection, schema inference) and src/data/filter_data.py (row filter).  *)
(*                                                                         *)
(* File names are sequences of one-character strings so that               *)
(* pathlib's suffix/stem and str.lower/str.replace are computed, not       *)
(* assumed.                                                                *)
(***************************************************************************)
EXTENDS Integers, Sequences, FiniteSets, TLC

VARIABLES
    \* ---- kaggle_fetch.main / extract_all_archives_recursive ----
    disk,        \* files on disk under RAW_DIR: path -> content
    all_files,   \* the working set of extract_all_archives_recursive
    todo,        \* members of the list `zips` the for loop has not visited yet
    changed,     \* the loop flag
    pc,          \* position in main / extract_all_archives_recursive
    result,      \* the value returned by extract_all_archives_recursive
    run,         \* 1 = first call, 2 = a second call on the tree the first left
    extracted,   \* archives extract_dataset has unpacked during this call
    again,       \* archives extract_dataset has unpacked more than once
    result1,     \* what the first call returned
    disk1        \* the disk as the first call left it

exvars == <<disk, all_files, todo, changed, pc, result, run, extracted, again,
           result1, disk1>>

VARIABLES
    \* ---- find_csv_files ----
    extracted_files,  \* the argument: a list of files, each with its st_size
    tabular,          \* the list the loop appends to
    sel_i,            \* index of the next element of extracted_files
    sel_pc,           \* "loop", "check", "returned" or "FileNotFoundError"
    sel_out           \* the returned list

selvars == <<extracted_files, tabular, sel_i, sel_pc, sel_out>>

VARIABLES
    \* ---- main's loop over csv_paths / infer_and_write_schema ----
    csv_paths,   \* the candidates, in the order find_csv_files returned them
    m_i,         \* index of the next candidate
    m_pc,        \* "loop", "alldone", or "critical" (main's except clause)
    m_err,       \* the exception that ended the loop, if any
    metadata,    \* METADATA_DIR: descriptor file name -> descriptor
    m_log        \* per processed candidate: where its descriptor went

mvars == <<csv_paths, m_i, m_pc, m_err, metadata, m_log>>

VARIABLES
    \* ---- filter_data.process_file ----
    f_missing,   \* "none", or which of the schema / source files does not exist
    f_table,     \* schema_data["table_name"]
    f_src,       \* the source file: its lines as the csv reader yields them
    f_range,     \* <<start_year, end_year>>
    f_pc,        \* position in process_file
    f_err,       \* the exception the outer try statement logged, if any
    f_header,    \* header
    f_idx,       \* date_col_index (counted from 1)
    f_i,         \* the index enumerate() gives the next row
    f_created,   \* whether this call opened filtered_csv_path for writing
    f_out,       \* the rows in the filtered file
    rows_written

fvars == <<f_missing, f_table, f_src, f_range, f_pc, f_err, f_header, f_idx, f_i,
           f_created, f_out, rows_written>>

vars == <<exvars, selvars, mvars, fvars>>

----------------------------------------------------------------------------
\* Bounds of the model
MaxFiles   == 2     \* files initially under the root
MaxDepth   == 2     \* nesting depth of archives
MaxMembers == 1     \* members per archive
NumData    == 2     \* distinct plain file contents
MaxList    == 2     \* length of the list given to find_csv_files
MaxSize    == 2     \* largest st_size
MaxCands   == 2     \* candidates handed to the schema loop
MaxRows    == 3     \* lines of a source file after its first line

----------------------------------------------------------------------------
\* Names and pathlib

Max(S) == CHOOSE x \in S : \A y \in S : y <= x

LowerChar(c) ==
    CASE c = "Z" -> "z"
      [] c = "I" -> "i"
      [] c = "P" -> "p"
      [] c = "C" -> "c"
      [] c = "S" -> "s"
      [] c = "V" -> "v"
      [] c = "G" -> "g"
      [] c = "X" -> "x"
      [] c = "L" -> "l"
      [] c = "A" -> "a"
      [] c = "B" -> "b"
      [] OTHER -> c

\* str.lower()
Lower(s) == [i \in DOMAIN s |-> LowerChar(s[i])]

LastDot(name) ==
    LET D == {i \in 1..Len(name) : name[i] = "."}
    IN  IF D = {} THEN 0 ELSE Max(D)

\* PurePath.suffix: the part from the last dot on, unless that dot is the
\* first character of the name or its last one
Suffix(name) ==
    LET j == LastDot(name)
    IN  IF j > 1 /\ j < Len(name) THEN SubSeq(name, j, Len(name)) ELSE <<>>

\* PurePath.stem
Stem(name) ==
    LET j == LastDot(name)
    IN  IF j > 1 /\ j < Len(name) THEN SubSeq(name, 1, j - 1) ELSE name

DotZip == <<".", "z", "i", "p">>

\* p.suffix.lower() == ".zip"
IsZipName(name) == Lower(Suffix(name)) = DotZip

----------------------------------------------------------------------------
\* Files.  A path is <<dir, name>>; RAW_DIR is "raw", its subdirectory "sub".

RAW_DIR == "raw"
Dirs == {"raw", "sub"}

zipA == <<"a", ".", "z", "i", "p">>
zipB == <<"b", ".", "Z", "I", "P">>
csvX == <<"x", ".", "c", "s", "v">>
ExNames == {zipA, zipB, csvX}

Data == {[kind |-> "data", id |-> i, members |-> {}] : i \in 1..NumData}

Zip(ms) == [kind |-> "zip", id |-> 0, members |-> ms]

\* an archive member: its name inside the archive is dir/name relative to
\* the extraction target; a file named *.csv holds plain data.  Only the
\* file entries of the namelist are members here, directory entries are not.
MembersOver(B) ==
    {m \in [dir : Dirs, name : ExNames, content : B] :
        ~IsZipName(m.name) => m.content.kind = "data"}

\* the subsets of S with at most k elements
RECURSIVE SetsUpTo(_, _)
SetsUpTo(S, k) ==
    IF k = 0 THEN {{}}
    ELSE LET T == SetsUpTo(S, k - 1) IN T \cup {t \cup {x} : t \in T, x \in S}

MemberSets(B) ==
    {ms \in SetsUpTo(MembersOver(B), MaxMembers) :
        /\ ms # {}
        /\ \A m1, m2 \in ms : (m1.dir = m2.dir /\ m1.name = m2.name) => m1 = m2}

RECURSIVE Blobs(_)
Blobs(d) ==
    IF d = 0 THEN Data
    ELSE LET B == Blobs(d - 1) IN B \cup {Zip(ms) : ms \in MemberSets(B)}

Paths == Dirs \X ExNames

NameOf(p) == p[2]
ParentOf(p) == p[1]

\* the directory trees a run may start from
InitDisks(n, depth) ==
    UNION {
        {f \in [P -> Blobs(depth)] :
            \A p \in P : ~IsZipName(NameOf(p)) => f[p].kind = "data"}
        : P \in {Q \in SUBSET Paths : Cardinality(Q) <= n} }

\* rglob("*") filtered by is_file()
Listing(d) == DOMAIN d

----------------------------------------------------------------------------
\* extract_dataset

\* zipfile.ZipFile(zip_path) opens only well-formed archives
Readable(d, z) == z \in DOMAIN d /\ d[z].kind = "zip"

MemberPath(m) == <<m.dir, m.name>>

\* zf.extractall(RAW_DIR): every member is written below RAW_DIR, whatever
\* directory the archive itself is in; the archive stays on disk
ExtractAll(d, z) ==
    LET ms == d[z].members
        new == {MemberPath(m) : m \in ms}
    IN  [p \in DOMAIN d \cup new |->
            IF p \in new
            THEN (CHOOSE m \in ms : MemberPath(m) = p).content
            ELSE d[p]]

\* [RAW_DIR / name for name in zf.namelist()]
ExtractedFiles(d, z) == {MemberPath(m) : m \in d[z].members}

\* the working set after one archive z has been unpacked: z leaves, and each
\* reported entry enters as z.parent / e.name when that exists, else as e
AfterExtract(files, d2, z, ex) ==
    (files \ {z}) \cup
        {IF <<ParentOf(z), NameOf(e)>> \in DOMAIN d2
            THEN <<ParentOf(z), NameOf(e)>> ELSE e : e \in ex}

\* the exceptions the for loop's try statement catches: extract_dataset
\* turns BadZipFile into FileProcessingError before it gets here
CaughtInLoop == {"BadZipFile"}
RaisedByExtract == "FileProcessingError"

----------------------------------------------------------------------------
\* main: the top-level extraction of RAW_DIR/<slug>.zip

zip_path == <<RAW_DIR, zipA>>

MainExtract ==
    /\ pc = "main"
    /\ IF zip_path \notin DOMAIN disk
       THEN /\ pc' = "aborted"
            /\ UNCHANGED <<disk, extracted, again>>
       ELSE IF ~Readable(disk, zip_path)
       THEN /\ pc' = "aborted"
            /\ UNCHANGED <<disk, extracted, again>>
       ELSE /\ disk' = ExtractAll(disk, zip_path)
            /\ extracted' = extracted \cup {zip_path}
            /\ again' = again \cup ({zip_path} \cap extracted)
            /\ pc' = "collect"
    /\ UNCHANGED <<all_files, todo, changed, result, run, result1, disk1>>

----------------------------------------------------------------------------
\* extract_all_archives_recursive

Collect ==
    /\ pc = "collect"
    /\ all_files' = Listing(disk)
    /\ changed' = TRUE
    /\ pc' = "while"
    /\ UNCHANGED <<disk, todo, result, run, extracted, again, result1, disk1>>

WhileTest ==
    /\ pc = "while"
    /\ IF changed
       THEN /\ changed' = FALSE
            /\ todo' = {p \in all_files : IsZipName(NameOf(p))}
            /\ pc' = "for"
       ELSE /\ pc' = "refresh"
            /\ UNCHANGED <<changed, todo>>
    /\ UNCHANGED <<disk, all_files, result, run, extracted, again, result1, disk1>>

\* one iteration of `for z in zips`; list(all_files) has no defined order
ForStep ==
    /\ pc = "for"
    /\ \E z \in todo :
        IF Readable(disk, z)
        THEN /\ disk' = ExtractAll(disk, z)
             /\ all_files' = AfterExtract(all_files, disk', z, ExtractedFiles(disk, z))
             /\ changed' = TRUE
             /\ extracted' = extracted \cup {z}
             /\ again' = again \cup ({z} \cap extracted)
             /\ todo' = todo \ {z}
             /\ pc' = "for"
        ELSE IF RaisedByExtract \in CaughtInLoop
        THEN /\ todo' = todo \ {z}
             /\ pc' = "for"
             /\ UNCHANGED <<disk, all_files, changed, extracted, again>>
        ELSE /\ pc' = "raised"
             /\ UNCHANGED <<disk, all_files, changed, extracted, again, todo>>
    /\ UNCHANGED <<result, run, result1, disk1>>

ForEnd ==
    /\ pc = "for"
    /\ todo = {}
    /\ pc' = "while"
    /\ UNCHANGED <<disk, all_files, todo, changed, result, run, extracted, again,
                   result1, disk1>>

Refresh ==
    /\ pc = "refresh"
    /\ all_files' = Listing(disk)
    /\ result' = all_files'
    /\ pc' = "done"
    /\ UNCHANGED <<disk, todo, changed, run, extracted, again, result1, disk1>>

\* a second call on the tree the first call left behind
Rerun ==
    /\ pc = "done"
    /\ run = 1
    /\ run' = 2
    /\ result1' = result
    /\ disk1' = disk
    /\ extracted' = {}
    /\ again' = {}
    /\ pc' = "collect"
    /\ UNCHANGED <<disk, all_files, todo, changed, result>>

SelIdle ==
    /\ extracted_files = <<>>
    /\ tabular = <<>>
    /\ sel_i = 1
    /\ sel_pc = "idle"
    /\ sel_out = <<>>

MIdle ==
    /\ csv_paths = <<>>
    /\ m_i = 1
    /\ m_pc = "idle"
    /\ m_err = "none"
    /\ metadata = <<>>
    /\ m_log = <<>>

FIdle ==
    /\ f_missing = "none"
    /\ f_table = ""
    /\ f_src = <<>>
    /\ f_range = <<0, 0>>
    /\ f_pc = "idle"
    /\ f_err = "none"
    /\ f_header = <<>>
    /\ f_idx = 0
    /\ f_i = 0
    /\ f_created = FALSE
    /\ f_out = <<>>
    /\ rows_written = 0

InitExpand ==
    /\ SelIdle
    /\ MIdle
    /\ FIdle
    /\ disk \in InitDisks(MaxFiles, MaxDepth)
    /\ pc \in {"main", "collect"}
    /\ all_files = {}
    /\ todo = {}
    /\ changed = FALSE
    /\ result = {}
    /\ run = 1
    /\ extracted = {}
    /\ again = {}
    /\ result1 = {}
    /\ disk1 = <<>>

NextExpand ==
    \/ MainExtract /\ UNCHANGED <<selvars, mvars, fvars>>
    \/ Collect /\ UNCHANGED <<selvars, mvars, fvars>>
    \/ WhileTest /\ UNCHANGED <<selvars, mvars, fvars>>
    \/ ForStep /\ UNCHANGED <<selvars, mvars, fvars>>
    \/ ForEnd /\ UNCHANGED <<selvars, mvars, fvars>>
    \/ Refresh /\ UNCHANGED <<selvars, mvars, fvars>>
    \/ Rerun /\ UNCHANGED <<selvars, mvars, fvars>>

SpecExpand == InitExpand /\ [][NextExpand]_vars

----------------------------------------------------------------------------
\* find_csv_files

DotCsv == <<".", "c", "s", "v">>
DotGz == <<".", "g", "z">>
DotCsvGz == <<".", "c", "s", "v", ".", "g", "z">>
DotXlsx == <<".", "x", "l", "s", "x">>
DotXls == <<".", "x", "l", "s">>

\* str.endswith
EndsWith(s, t) ==
    /\ Len(s) >= Len(t)
    /\ SubSeq(s, Len(s) - Len(t) + 1, Len(s)) = t

SelNames ==
    { <<"a">> \o DotCsv,
      <<"A", ".", "C", "S", "V">>,
      <<"a">> \o DotCsvGz,
      <<"a">> \o DotGz,
      <<"a">> \o DotXlsx,
      <<"a", ".", "X", "L", "S">>,
      <<"a">> \o DotZip,
      <<"a", "c", "s", "v">>,
      DotCsv,
      DotXls,
      DotCsvGz }

SelFiles == [name : SelNames, size : 0..MaxSize]

\* lists of files with pairwise different paths
SelInputs(max) ==
    {l \in UNION {[1..n -> SelFiles] : n \in 0..max} :
        \A i, j \in 1..Len(l) : i # j => l[i].name # l[j].name}

\* the chain with the .csv.gz test of the name left out
IsTabularAnyGz(name) ==
    LET suf == Lower(Suffix(name))
    IN  \/ suf = DotCsv
        \/ suf = DotGz
        \/ suf \in {DotXlsx, DotXls}

\* the if/elif chain of the loop body
IsTabular(name) ==
    LET suf == Lower(Suffix(name))
    IN  \/ suf = DotCsv
        \/ suf = DotGz /\ EndsWith(Lower(name), DotCsvGz)
        \/ suf \in {DotXlsx, DotXls}

\* sorted(..., key=st_size, reverse=True): a stable sort, largest first
InsertBySize(s, f) ==
    LET k == Cardinality({i \in 1..Len(s) : s[i].size >= f.size})
    IN  SubSeq(s, 1, k) \o <<f>> \o SubSeq(s, k + 1, Len(s))

RECURSIVE SortedBySizeDesc(_)
SortedBySizeDesc(s) ==
    IF s = <<>> THEN <<>>
    ELSE InsertBySize(SortedBySizeDesc(SubSeq(s, 1, Len(s) - 1)), s[Len(s)])

SelLoop ==
    /\ sel_pc = "loop"
    /\ sel_i <= Len(extracted_files)
    /\ tabular' = IF IsTabular(extracted_files[sel_i].name)
                  THEN Append(tabular, extracted_files[sel_i])
                  ELSE tabular
    /\ sel_i' = sel_i + 1
    /\ UNCHANGED <<extracted_files, sel_pc, sel_out>>

SelReturn ==
    /\ sel_pc = "loop"
    /\ sel_i > Len(extracted_files)
    /\ IF tabular = <<>>
       THEN /\ sel_pc' = "FileNotFoundError"
            /\ UNCHANGED sel_out
       ELSE /\ sel_out' = SortedBySizeDesc(tabular)
            /\ sel_pc' = "returned"
    /\ UNCHANGED <<extracted_files, tabular, sel_i>>

ExIdle ==
    /\ disk = <<>>
    /\ pc = "idle"
    /\ all_files = {}
    /\ todo = {}
    /\ changed = FALSE
    /\ result = {}
    /\ run = 1
    /\ extracted = {}
    /\ again = {}
    /\ result1 = {}
    /\ disk1 = <<>>

InitSelect ==
    /\ ExIdle
    /\ MIdle
    /\ FIdle
    /\ extracted_files \in SelInputs(MaxList)
    /\ tabular = <<>>
    /\ sel_i = 1
    /\ sel_pc = "loop"
    /\ sel_out = <<>>

NextSelect ==
    \/ SelLoop /\ UNCHANGED <<exvars, mvars, fvars>>
    \/ SelReturn /\ UNCHANGED <<exvars, mvars, fvars>>

SpecSelect == InitSelect /\ [][NextSelect]_vars

----------------------------------------------------------------------------
\* infer_and_write_schema and the loop of main that calls it

\* sampled columns, as the cell texts of the file
IntLits == {"1", "2", "42"}
FloatLits == {"1.5"}
BoolWords == {"true", "false"}
DateStamps == {"2007-05-26"}
\* among pandas' default na_values
NaTokens == {"N/A"}

SampleColumns ==
    { <<"1", "2", "42">>,
      <<"1", "2", "1.5">>,
      <<"true", "false">>,
      <<"2007-05-26">>,
      <<"1", "N/A", "2">>,
      <<"abc", "1">>,
      <<>> }

ColNames == {"c1"}

Range(f) == {f[x] : x \in DOMAIN f}

\* pd.read_csv(csv_path, nrows=..., low_memory=False, compression=...): no
\* parse_dates and the default na_values, so a column is int64 when every cell
\* is an integer, float64 when every cell is a number or an NA token, bool
\* when every cell is a boolean word, and object otherwise
ReadCsvDtype(col) ==
    LET cells == Range(col)
    IN  IF cells = {} THEN "object"
        ELSE IF cells \subseteq IntLits THEN "int64"
        ELSE IF cells \subseteq (IntLits \cup FloatLits \cup NaTokens) THEN "float64"
        ELSE IF cells \subseteq BoolWords THEN "bool"
        ELSE "object"

\* the if/elif chain over df.dtypes
SqlType(dtype) ==
    IF dtype = "int64" THEN "BIGINT"
    ELSE IF dtype = "float64" THEN "DOUBLE PRECISION"
    ELSE IF dtype = "bool" THEN "BOOLEAN"
    ELSE IF dtype = "datetime64" THEN "TIMESTAMP"
    ELSE "TEXT"

InferSchema(df) == [c \in DOMAIN df |-> SqlType(ReadCsvDtype(df[c]))]

SchemaSuffix == <<"_", "s", "c", "h", "e", "m", "a", ".", "j", "s", "o", "n">>

\* METADATA_DIR / f"{csv_path.stem}_schema.json"
SchemaFileName(name) == Stem(name) \o SchemaSuffix

\* str.replace("-", "_")
ReplaceHyphen(s) == [i \in DOMAIN s |-> IF s[i] = "-" THEN "_" ELSE s[i]]

\* csv_path.stem.lower().replace("-", "_")
TableName(name) == ReplaceHyphen(Lower(Stem(name)))

CandNames ==
    { <<"a">> \o DotCsv,
      <<"A">> \o DotCsv,
      <<"a", "-", "b">> \o DotCsv,
      <<"a", "_", "b">> \o DotCsv,
      <<"a">> \o DotCsvGz,
      <<"a">> \o DotXlsx }

\* a candidate: a file that exists and parses (with its sampled frame), one
\* that is gone by the time it is read, or one read_csv cannot parse
Candidates ==
    [dir : Dirs, name : CandNames, state : {"ok"},
     df : [ColNames -> SampleColumns]]
    \cup [dir : Dirs, name : CandNames, state : {"missing", "unparsable"},
          df : {<<>>}]

\* find_csv_files never returns an empty list, and its input has no path twice
CandInputs(max) ==
    {l \in UNION {[1..n -> Candidates] : n \in 1..max} :
        \A i, j \in 1..Len(l) :
            i # j => <<l[i].dir, l[i].name>> # <<l[j].dir, l[j].name>>}

\* what leaves infer_and_write_schema for this candidate: stat() is outside
\* the try statement, every failure inside it becomes FileProcessingError
InferRaises(c) ==
    IF c.state = "missing" THEN "FileNotFoundError"
    ELSE IF c.state = "unparsable" THEN "FileProcessingError"
    ELSE "none"

\* the exceptions the body of main's for loop handles per candidate
CaughtPerFile == {}

\* one iteration of `for csv_path in csv_paths`
InferStep ==
    /\ m_pc = "loop"
    /\ m_i <= Len(csv_paths)
    /\ LET c == csv_paths[m_i]
           f == SchemaFileName(c.name)
           d == [source_csv |-> <<c.dir, c.name>>,
                 table_name |-> TableName(c.name),
                 schema |-> InferSchema(c.df)]
       IN  IF InferRaises(c) = "none"
           THEN /\ metadata' = [x \in DOMAIN metadata \cup {f} |->
                                    IF x = f THEN d ELSE metadata[x]]
                /\ m_log' = [x \in DOMAIN m_log \cup {m_i} |->
                                IF x = m_i
                                THEN [schema_file |-> f, table_name |-> d.table_name,
                                      schema |-> d.schema]
                                ELSE m_log[x]]
                /\ m_i' = m_i + 1
                /\ UNCHANGED <<m_pc, m_err>>
           ELSE IF InferRaises(c) \in CaughtPerFile
           THEN /\ m_i' = m_i + 1
                /\ UNCHANGED <<m_pc, m_err, metadata, m_log>>
           ELSE /\ m_pc' = "critical"
                /\ m_err' = InferRaises(c)
                /\ UNCHANGED <<m_i, metadata, m_log>>
    /\ UNCHANGED csv_paths

LoopEnd ==
    /\ m_pc = "loop"
    /\ m_i > Len(csv_paths)
    /\ m_pc' = "alldone"
    /\ UNCHANGED <<csv_paths, m_i, m_err, metadata, m_log>>

InitSchema ==
    /\ ExIdle
    /\ SelIdle
    /\ FIdle
    /\ csv_paths \in CandInputs(MaxCands)
    /\ m_i = 1
    /\ m_pc = "loop"
    /\ m_err = "none"
    /\ metadata = <<>>
    /\ m_log = <<>>

NextSchema ==
    \/ InferStep /\ UNCHANGED <<exvars, selvars, fvars>>
    \/ LoopEnd /\ UNCHANGED <<exvars, selvars, fvars>>

SpecSchema == InitSchema /\ [][NextSchema]_vars

----------------------------------------------------------------------------
\* filter_data.py: parse_date_to_year

None == -1

Digits == {"0", "1", "2", "3", "4", "5", "6", "7", "8", "9"}

DigitVal(c) ==
    CASE c = "0" -> 0 [] c = "1" -> 1 [] c = "2" -> 2 [] c = "3" -> 3
      [] c = "4" -> 4 [] c = "5" -> 5 [] c = "6" -> 6 [] c = "7" -> 7
      [] c = "8" -> 8 [] c = "9" -> 9

\* int() of a run of decimal digits
RECURSIVE IntOf(_)
IntOf(s) ==
    IF s = <<>> THEN 0
    ELSE 10 * IntOf(SubSeq(s, 1, Len(s) - 1)) + DigitVal(s[Len(s)])

AllDigits(s) == \A i \in 1..Len(s) : s[i] \in Digits

\* the characters of the cell texts used below
Chars(cell) ==
    CASE cell = "" -> <<>>
      [] cell = "Jan-2006" -> <<"J", "a", "n", "-", "2", "0", "0", "6">>
      [] cell = "2007-05-26" -> <<"2", "0", "0", "7", "-", "0", "5", "-", "2", "6">>
      [] cell = "Dec-2011" -> <<"D", "e", "c", "-", "2", "0", "1", "1">>
      [] cell = "Jan-2012" -> <<"J", "a", "n", "-", "2", "0", "1", "2">>
      [] cell = "not-a-date" -> <<"n", "o", "t", "-", "a", "-", "d", "a", "t", "e">>
      [] cell = "0000" -> <<"0", "0", "0", "0">>
      [] cell = "7-Jan" -> <<"7", "-", "J", "a", "n">>
      [] cell = "issue_d" -> <<"i", "s", "s", "u", "e", "_", "d">>
      [] cell = "Application Date" ->
            <<"A", "p", "p", "l", "i", "c", "a", "t", "i", "o", "n", " ",
              "D", "a", "t", "e">>
      [] cell = "id" -> <<"i", "d">>
      [] cell = "9" -> <<"9">>

\* re.search(r"(\d{4})", s): where the first run of four digits starts, 0 if none
FirstFourDigits(s) ==
    LET P == {i \in 1..(Len(s) - 3) : AllDigits(SubSeq(s, i, i + 3))}
    IN  IF P = {} THEN 0 ELSE CHOOSE i \in P : \A j \in P : i <= j

\* date_str.split("-")[0]
BeforeHyphen(s) ==
    LET H == {i \in 1..Len(s) : s[i] = "-"}
    IN  IF H = {} THEN s
        ELSE SubSeq(s, 1, (CHOOSE i \in H : \A j \in H : i <= j) - 1)

parse_date_to_year(date_str) ==
    LET s == Chars(date_str)
        m == FirstFourDigits(s)
        year_str == BeforeHyphen(s)
    IN  IF s = <<>> THEN None
        ELSE IF m # 0 THEN IntOf(SubSeq(s, m, m + 3))
        ELSE IF year_str # <<>> /\ AllDigits(year_str) THEN IntOf(year_str)
        ELSE None

----------------------------------------------------------------------------
\* filter_data.py: process_file

AcceptedTable == "accepted_2007_to_2018q4"
RejectedTable == "rejected_2007_to_2018q4"

\* "issue_d" if "accepted" in table_name else "Application Date"
DateCol(table_name) ==
    IF table_name \in {AcceptedTable} THEN "issue_d" ELSE "Application Date"

\* a line of the source as csv.reader yields it: its cells, or err when the
\* reader raises on it (csv.Error on an oversized field, a gzip stream that
\* ends early)
Line(cells) == [err |-> FALSE, cells |-> cells]
ErrLine == [err |-> TRUE, cells |-> <<>>]

DateCells ==
    {"Jan-2006", "2007-05-26", "Dec-2011", "Jan-2012", "not-a-date", "0000",
     "7-Jan", ""}

Headers == {<<"id", "issue_d">>, <<"id", "Application Date">>, <<>>}

BodyLines(h) ==
    {Line(<<"9", d>>) : d \in DateCells}
        \cup {Line(h), Line(<<"9">>), Line(<<>>), ErrLine}

RECURSIVE Bodies(_, _)
Bodies(h, n) ==
    IF n = 0 THEN {<<>>}
    ELSE LET B == Bodies(h, n - 1)
         IN  B \cup {Append(b, l) : b \in {c \in B : Len(c) = n - 1}, l \in BodyLines(h)}

Sources(n) ==
    {<<>>, <<ErrLine>>}
        \cup UNION {{<<Line(h)>> \o b : b \in Bodies(h, n)} : h \in Headers}

YearBounds == {0, 2007, 2011}

Ranges == {r \in YearBounds \X YearBounds : r[1] <= r[2]}

\* list.index: the first position holding x
IndexOf(seq, x) == CHOOSE i \in 1..Len(seq) : seq[i] = x /\ \A j \in 1..(i - 1) : seq[j] # x

\* `if year and start_year <= year <= end_year`
YearPasses(year, start_year, end_year) ==
    /\ year # None
    /\ year # 0
    /\ start_year <= year
    /\ year <= end_year

\* the body of the row loop: TRUE when the row is written
RowWritten(i, row, header, idx, start_year, end_year) ==
    IF i = 0 /\ Len(row) = Len(header) /\ row = header THEN FALSE
    ELSE IF row = <<>> \/ Len(row) <= idx - 1 THEN FALSE
    ELSE YearPasses(parse_date_to_year(row[idx]), start_year, end_year)

FFail(e) ==
    /\ f_pc' = "failed"
    /\ f_err' = e

\* lines 72-104: the existence checks, open the source, read the header
FStart ==
    /\ f_pc = "start"
    /\ IF f_missing # "none"
       THEN FFail("FileProcessingError") /\ UNCHANGED f_header
       ELSE IF f_src = <<>>
       THEN FFail("FileProcessingError") /\ UNCHANGED f_header
       ELSE IF f_src[1].err
       THEN FFail("Exception") /\ UNCHANGED f_header
       ELSE IF f_src[1].cells = <<>>
       THEN FFail("FileProcessingError") /\ UNCHANGED f_header
       ELSE /\ f_header' = f_src[1].cells
            /\ f_pc' = "dupcheck"
            /\ UNCHANGED f_err
    /\ UNCHANGED <<f_missing, f_table, f_src, f_range, f_idx, f_i, f_created,
                   f_out, rows_written>>

\* line 106: list(next(reader, None)) == header; next gives None at the end
\* of the file and list(None) raises TypeError
FDupCheck ==
    /\ f_pc = "dupcheck"
    /\ IF Len(f_src) < 2
       THEN FFail("TypeError")
       ELSE IF f_src[2].err
       THEN FFail("Exception")
       ELSE /\ f_pc' = "datecol"
            /\ UNCHANGED f_err
    /\ UNCHANGED <<f_missing, f_table, f_src, f_range, f_header, f_idx, f_i,
                   f_created, f_out, rows_written>>

\* lines 112-120
FDateCol ==
    /\ f_pc = "datecol"
    /\ IF \E i \in 1..Len(f_header) : f_header[i] = DateCol(f_table)
       THEN /\ f_idx' = IndexOf(f_header, DateCol(f_table))
            /\ f_pc' = "openout"
            /\ UNCHANGED f_err
       ELSE FFail("FileProcessingError") /\ UNCHANGED f_idx
    /\ UNCHANGED <<f_missing, f_table, f_src, f_range, f_header, f_i, f_created,
                   f_out, rows_written>>

\* lines 123-129: rewind, skip the header, open the filtered file for
\* writing and write the header
FOpenOut ==
    /\ f_pc = "openout"
    /\ f_created' = TRUE
    /\ f_out' = <<f_header>>
    /\ f_i' = 0
    /\ f_pc' = "rows"
    /\ UNCHANGED <<f_missing, f_table, f_src, f_range, f_err, f_header, f_idx,
                   rows_written>>

\* lines 131-144: one iteration of the row loop
FRow ==
    /\ f_pc = "rows"
    /\ f_i + 2 <= Len(f_src)
    /\ LET l == f_src[f_i + 2]
       IN  IF l.err
           THEN FFail("Exception") /\ UNCHANGED <<f_i, f_out, rows_written>>
           ELSE /\ IF RowWritten(f_i, l.cells, f_header, f_idx, f_range[1], f_range[2])
                   THEN /\ f_out' = Append(f_out, l.cells)
                        /\ rows_written' = rows_written + 1
                   ELSE UNCHANGED <<f_out, rows_written>>
                /\ f_i' = f_i + 1
                /\ UNCHANGED <<f_pc, f_err>>
    /\ UNCHANGED <<f_missing, f_table, f_src, f_range, f_header, f_idx, f_created>>

FDone ==
    /\ f_pc = "rows"
    /\ f_i + 2 > Len(f_src)
    /\ f_pc' = "done"
    /\ UNCHANGED <<f_missing, f_table, f_src, f_range, f_err, f_header, f_idx, f_i,
                   f_created, f_out, rows_written>>

InitFilter ==
    /\ ExIdle
    /\ SelIdle
    /\ MIdle
    /\ f_table \in {AcceptedTable, RejectedTable}
    /\ f_range \in Ranges
    /\ \/ f_missing = "none" /\ f_src \in Sources(MaxRows)
       \/ f_missing \in {"schema", "source"} /\ f_src = <<>>
    /\ f_pc = "start"
    /\ f_err = "none"
    /\ f_header = <<>>
    /\ f_idx = 0
    /\ f_i = 0
    /\ f_created = FALSE
    /\ f_out = <<>>
    /\ rows_written = 0

NextFilter ==
    \/ FStart /\ UNCHANGED <<exvars, selvars, mvars>>
    \/ FDupCheck /\ UNCHANGED <<exvars, selvars, mvars>>
    \/ FDateCol /\ UNCHANGED <<exvars, selvars, mvars>>
    \/ FOpenOut /\ UNCHANGED <<exvars, selvars, mvars>>
    \/ FRow /\ UNCHANGED <<exvars, selvars, mvars>>
    \/ FDone /\ UNCHANGED <<exvars, selvars, mvars>>

SpecFilter == InitFilter /\ [][NextFilter]_vars

----------------------------------------------------------------------------
\* Properties of the archive expander (SpecExpand)

\* C1: when extract_all_archives_recursive returns, no path of the returned
\* set has the suffix .zip (case-insensitive); a call that returns has met
\* only readable archives.
C1_NoArchiveReturned ==
    pc = "done" => \A p \in result : ~IsZipName(NameOf(p))

\* C2: a malformed archive never aborts the expansion: the call skips it and
\* returns a file set, it does not end by raising.
C2_BadArchiveNeverAborts ==
    pc # "raised"

\* C3: a second call on the tree a completed first call left returns the
\* same file set, extracts nothing and leaves the files on disk as they were.
C3_SecondRunIsNoOp ==
    (run = 2 /\ pc = "done") =>
        /\ result = result1
        /\ extracted = {}
        /\ disk = disk1

----------------------------------------------------------------------------
\* Properties of the row filter (SpecFilter)

FTerminated == f_pc \in {"done", "failed"}

NoErrLines == \A k \in 1..Len(f_src) : ~f_src[k].err

\* the source has a non-empty first line that holds the date column
ValidHeader ==
    /\ f_missing = "none"
    /\ f_src # <<>>
    /\ ~f_src[1].err
    /\ f_src[1].cells # <<>>
    /\ \E i \in 1..Len(f_src[1].cells) : f_src[1].cells[i] = DateCol(f_table)

\* the lines after the header, without a copy of the header that directly
\* follows it
DataLines ==
    LET rest == Tail(f_src)
    IN  IF rest # <<>> /\ rest[1] = f_src[1] THEN Tail(rest) ELSE rest

CellsOf(ls) == [k \in 1..Len(ls) |-> ls[k].cells]

\* the row has a date cell whose year lies in the range
DateInRange(l) ==
    LET idx == IndexOf(f_src[1].cells, DateCol(f_table))
    IN  /\ Len(l.cells) >= idx
        /\ parse_date_to_year(l.cells[idx]) # None
        /\ f_range[1] <= parse_date_to_year(l.cells[idx])
        /\ parse_date_to_year(l.cells[idx]) <= f_range[2]

\* C4: process_file writes a header-conforming data row if and only if the
\* year of its date cell (first 4-digit run, else the integer before the
\* first hyphen) lies in [start_year, end_year]; written rows keep their
\* order and the header is written once, also after a duplicated header.
C4_RowsWrittenIffYearInRange ==
    ( /\ f_pc = "done"
      /\ ValidHeader
      /\ NoErrLines
      /\ \A k \in 1..Len(DataLines) : Len(DataLines[k].cells) = Len(f_src[1].cells) )
    => f_out = <<f_src[1].cells>> \o CellsOf(SelectSeq(DataLines, DateInRange))

\* C5: for a source with a valid header and R >= 0 data rows of which Q have
\* dates in range, the filtered file holds one header row and then exactly Q
\* data rows, and Q <= R; R = 0 included.
C5_HeaderPlusQRows ==
    (FTerminated /\ ValidHeader /\ NoErrLines) =>
        /\ f_created
        /\ f_out # <<>>
        /\ f_out[1] = f_src[1].cells
        /\ Len(f_out) = 1 + Len(SelectSeq(DataLines, DateInRange))
        /\ Len(SelectSeq(DataLines, DateInRange)) <= Len(DataLines)

\* the rows the loop writes when it gets through all readable lines of the
\* source: line k + 2 is row k of enumerate()
RECURSIVE WrittenUpTo(_)
WrittenUpTo(n) ==
    IF n <= 1 THEN <<>>
    ELSE LET l == f_src[n]
         IN  IF ~l.err /\ RowWritten(n - 2, l.cells, f_header, f_idx, f_range[1], f_range[2])
             THEN Append(WrittenUpTo(n - 1), l.cells)
             ELSE WrittenUpTo(n - 1)

\* C6: after any call of process_file, ended normally or by an error, the
\* filtered file either holds the header and every qualifying row of the
\* source or was not created by the call; never only a prefix of the rows.
C6_AllOrNothingOutput ==
    FTerminated =>
        \/ ~f_created
        \/ f_out = <<f_header>> \o WrittenUpTo(Len(f_src))

----------------------------------------------------------------------------
\* Properties of the schema loop (SpecSchema)

MTerminated == m_pc \in {"alldone", "critical"}

\* C7: a candidate that is missing or fails inference is skipped, and every
\* later candidate is still processed and gets its descriptor.
C7_LaterFilesStillProcessed ==
    MTerminated =>
        \A i \in 1..Len(csv_paths) : csv_paths[i].state = "ok" => i \in DOMAIN m_log

\* C8: two distinct candidates processed in one run get different table
\* names and different descriptor files, so no descriptor is overwritten.
C8_DescriptorsUnique ==
    \A i, j \in DOMAIN m_log :
        i # j => /\ m_log[i].table_name # m_log[j].table_name
                 /\ m_log[i].schema_file # m_log[j].schema_file

Numbers == IntLits \cup FloatLits

\* C9: per column: all integer literals -> BIGINT; numbers with a fractional
\* one -> DOUBLE PRECISION; only true/false -> BOOLEAN; full date stamps ->
\* TIMESTAMP; a non-numeric token such as N/A mixed with numbers -> TEXT.
C9_TypeInferencePolicy ==
    \A i \in DOMAIN m_log : \A c \in DOMAIN csv_paths[i].df :
        LET cells == Range(csv_paths[i].df[c])
            t == m_log[i].schema[c]
        IN  /\ (cells # {} /\ cells \subseteq IntLits) => t = "BIGINT"
            /\ (cells \subseteq Numbers /\ cells \cap FloatLits # {})
                    => t = "DOUBLE PRECISION"
            /\ (cells # {} /\ cells \subseteq BoolWords) => t = "BOOLEAN"
            /\ (cells # {} /\ cells \subseteq DateStamps) => t = "TIMESTAMP"
            /\ (cells \cap Numbers # {} /\ cells \ Numbers # {}) => t = "TEXT"

----------------------------------------------------------------------------
\* Properties of the selector (SpecSelect)

NonIncreasing(s) == \A i \in 1..(Len(s) - 1) : s[i].size >= s[i + 1].size

\* s lists exactly the members of the input that satisfy P, each once
ListsExactly(s, P(_)) ==
    LET want == {f \in Range(extracted_files) : P(f.name)}
    IN  /\ Range(s) = want
        /\ Len(s) = Cardinality(want)

NameEndsTabular(name) ==
    \E ext \in {DotCsv, DotCsvGz, DotXlsx, DotXls} : EndsWith(Lower(name), ext)

\* C10 as stated: the members whose name ends in .csv, .csv.gz, .xlsx or
\* .xls, each once, non-increasing in size; the error when none matches.
C10_SelectsByNameEnding ==
    /\ sel_pc = "returned" =>
        /\ ListsExactly(sel_out, NameEndsTabular)
        /\ NonIncreasing(sel_out)
        /\ sel_out # <<>>
    /\ sel_pc = "FileNotFoundError" =>
        \A f \in Range(extracted_files) : ~NameEndsTabular(f.name)

\* the name ends in .csv.gz, or ends in .csv, .xlsx or .xls after at least
\* one other character
HasTabularExtension(name) ==
    \/ EndsWith(Lower(name), DotCsvGz)
    \/ \E ext \in {DotCsv, DotXlsx, DotXls} :
        EndsWith(Lower(name), ext) /\ Len(name) > Len(ext)

\* C10 amended: find_csv_files returns exactly the members whose name ends
\* (case-insensitively) in .csv.gz, or in .csv, .xlsx or .xls preceded by at
\* least one character, each once, non-increasing in size; it raises
\* FileNotFoundError exactly when no member is such a file.
C10_SelectsByExtension ==
    /\ sel_pc = "returned" =>
        /\ ListsExactly(sel_out, HasTabularExtension)
        /\ NonIncreasing(sel_out)
        /\ sel_out # <<>>
    /\ sel_pc = "FileNotFoundError" =>
        \A f \in Range(extracted_files) : ~HasTabularExtension(f.name)

\* two tabular files given smallest first come back largest first
C10_Witness ==
    /\ sel_pc = "returned"
    /\ Len(extracted_files) = 2
    /\ extracted_files[1].size < extracted_files[2].size
    /\ sel_out = <<extracted_files[2], extracted_files[1]>>

----------------------------------------------------------------------------
\* Termination of the expansion loop (SpecCallFair)

\* one call of extract_all_archives_recursive on any of the trees
InitCall == InitExpand /\ pc = "collect"

NextCall ==
    \/ Collect /\ UNCHANGED <<selvars, mvars, fvars>>
    \/ WhileTest /\ UNCHANGED <<selvars, mvars, fvars>>
    \/ ForStep /\ UNCHANGED <<selvars, mvars, fvars>>
    \/ ForEnd /\ UNCHANGED <<selvars, mvars, fvars>>
    \/ Refresh /\ UNCHANGED <<selvars, mvars, fvars>>

\* the program is sequential and never waits: whenever it has a next step
\* it takes it
SpecCallFair == InitCall /\ [][NextCall]_vars /\ WF_vars(NextCall)

\* an archive that opens, and whose nested archives all open too
RECURSIVE ReadableDeep(_)
ReadableDeep(content) ==
    /\ content.kind = "zip"
    /\ \A m \in content.members : IsZipName(m.name) => ReadableDeep(m.content)

AllArchivesReadable ==
    \A p \in DOMAIN disk : IsZipName(NameOf(p)) => ReadableDeep(disk[p])

\* C11: on a finite tree whose archives are all readable and nest to a finite
\* depth, whatever the member names and the directories of the archives, a
\* call of extract_all_archives_recursive eventually reaches a pass that
\* extracts nothing and returns.
C11_ExpansionTerminates ==
    (pc = "collect" /\ AllArchivesReadable) ~> (pc = "done")

\* C12: within one pipeline run (main's top-level extraction, then
\* extract_all_archives_recursive) every archive path is extracted at most
\* once: a processed archive is never extracted again.
C12_NoArchiveExtractedTwice ==
    run = 1 => again = {}

====
